---- MODULE Spec2Model ----
(***************************************************************************)
(* A model of spotifio's credential lifecycle: TokenHandler (oauth.py),    *)
(* its callback WebServer, JSONStorage (storage.py) and the request        *)
(* wrapper RequestHandler / Client (client.py).                            *)
(*                                                                         *)
(* The program is single-threaded asyncio code.  A coroutine runs without  *)
(* interruption from one suspension to the next, so each action below is   *)
(* the whole piece of code a task executes between two suspensions: it is  *)
(* written as a function from the program state (a record S of all the     *)
(* variables) to the program state, and calls, returns and exceptions      *)
(* that do not suspend are composed inside one action.                     *)
(*                                                                         *)
(* The event loop runs the coroutines it was told to resume (by            *)
(* create_task, Event.set, Future.set_result) in the order it was told:    *)
(* ready is that queue.  A coroutine suspended on input or output (a file, *)
(* the network) resumes when that ends, at any time, except that an        *)
(* operation begun while coroutines were waiting in the queue does not end *)
(* before they have run (hold).  Time passes only when the queue is empty. *)
(***************************************************************************)
EXTENDS Integers, Sequences, FiniteSets, TLC

\* ---------------------------------------------------------------- bounds
NumCallers == 2
MaxTokReqs == 2
MaxHttp == 2
MaxCalls == 2
MaxTime == 30
MaxSites == 3

\* ------------------------------------------------------ program constants
\* the renewal margin of _token_refresher: expires_time - time.time() - 60
Margin == 60
\* retry_after = int(resp.headers.get('Retry-After', 1))
DefaultRetryAfter == 1
\* asyncio.wait_for(self._refresh_task, timeout=15)
StopTimeout == 15

\* The clock advances in steps of half a margin.
TickStep == Margin \div 2
\* Lifetimes (expires_in) the token endpoint answers with: one not larger
\* than the margin, one larger.
ExpiresIn == {TickStep, Margin + TickStep}
\* expires_time of a record found in storage at start, relative to time 0:
\* already expired, or further away than the margin.
FreshExpiry == Margin + TickStep
StoredExpiry == {0 - TickStep, FreshExpiry}

Callers == 1..NumCallers
\* _run() creates one task per call; it is called at most once per _login.
Refreshers == (NumCallers + 1)..(2 * NumCallers)
Tasks == Callers \cup Refreshers

\* RequestHandler.SCOPE_REQUIREMENTS, three of its 87 rows: one scope, two
\* scopes, none.
SCOPE_REQUIREMENTS ==
    [get_playback_state |-> {"user-read-playback-state"},
     get_current_user |-> {"user-read-private", "user-read-email"},
     get_track |-> {}]
ClientOps == DOMAIN SCOPE_REQUIREMENTS
\* The scope list the TokenHandler of a Client is constructed with.
ClientScope == {"user-read-playback-state"}
\* query parameters of a callback request
GoodState == "state"
BadState == "other"
Codes == {1, 2}
\* The requests the callback route is sent: a foreign state, a denial, no
\* code, and a code (code 0: no "code" parameter).
CallbackQueries ==
    {[state |-> BadState, code |-> 1, error |-> FALSE],
     [state |-> BadState, code |-> 2, error |-> TRUE],
     [state |-> GoodState, code |-> 1, error |-> TRUE],
     [state |-> GoodState, code |-> 0, error |-> FALSE]}
    \cup {[state |-> GoodState, code |-> c, error |-> FALSE] : c \in Codes}
\* The request the browser of a user who grants the access sends.
GrantCallbacks ==
    {q \in CallbackQueries : q.state = GoodState /\ ~q.error /\ q.code = 1}
\* The answers of the token endpoint: a failure (a status other than 200, or
\* no answer), or 200 with a lifetime and with or without a refresh_token.
TokenAnswers ==
    {[ok |-> FALSE, has_rt |-> FALSE, expires_in |-> 0]}
    \cup {[ok |-> TRUE, has_rt |-> h, expires_in |-> e] :
             h \in BOOLEAN, e \in ExpiresIn}
\* The answers of the remote API: a status (0: no answer, a ClientError) and
\* the Retry-After of a 429.
ApiAnswers ==
    {[status |-> s, retry_after |-> DefaultRetryAfter] : s \in {200, 204, 401, 429, 500, 0}}
    \cup {[status |-> 429, retry_after |-> TickStep]}
\* The answers that tell _request apart when calls overlap: a success, a
\* 401 and a 429 without a Retry-After.
OverlapAnswers ==
    {r \in ApiAnswers : r.status \in {200, 401, 429}
                           /\ r.retry_after = DefaultRetryAfter}

\* ------------------------------------------------------------ the state
VARIABLES
    now,          \* time.time()
    token,        \* TokenHandler._token
    stored,       \* the files of JSONStorage's directory, by path
    event,        \* TokenHandler._refresh_event (set = TRUE)
    running,      \* TokenHandler._running
    refresh_task, \* TokenHandler._refresh_task (0 = None)
    auth_code,    \* TokenHandler._auth_code (0 = None)
    auth_future,  \* TokenHandler._auth_future: the task that created it (0 = None)
    futDone,      \* the tasks whose future has a result
    auth_link,    \* the state parameter of the last auth_link (state), of the
                  \* one before (prev), and whether the future of the round
                  \* before had its result when the last began (resolved)
    app_task,     \* WebServer._app_task is not None
    server,       \* WebServer._runner and _site (0 = None; a runner and its
                  \* site have the same number), and of the sites made so
                  \* far (n): whose start() has not run yet (starting), the
                  \* ones registered in their runner (reg) and the ones whose
                  \* socket is bound to the port (listening)
    scope,        \* TokenHandler.scope, the scopes asked for
    granted,      \* the scopes the authorization server grants this user
    issued,       \* tokens minted so far; a token's value is its number
    last_rt,      \* the refresh token the server issued last (0: none yet)
    nreq,         \* requests sent to the token endpoint so far
    nhttp,        \* requests sent to the remote API so far
    ncalls,       \* operations started so far
    refreshSent,  \* per record (by access token): refresh_token requests
                  \* the background refresher sent while it was held
    tasks,        \* the coroutines: callers and refresher tasks
    waiters,      \* asyncio.Event._waiters of _refresh_event, oldest first
    ready,        \* the coroutines the loop will resume, next one first
    ret,          \* the get_token() return made by the last step, if any
    fin,          \* the Client operation ended by the last step, if any
    ld,           \* the load_token() return made by the last step, if any
    tr,           \* the _token_request return made by the last step, if any
    saved,        \* per account key: the record of the last save_token that
                  \* ended, if no save for the key has begun since
    cb            \* the callback request handled by the last step, if any

vars == <<now, token, stored, event, running, refresh_task, auth_code,
          auth_future, futDone, auth_link, app_task, server, scope, granted, issued, last_rt, nreq,
          nhttp, ncalls, refreshSent, tasks, waiters, ready, ret, fin, ld, tr,
          saved, cb>>

\* A token record: the dict of the token endpoint's JSON answer.  rt = 0:
\* no "refresh_token" key; hasexp = FALSE: no "expires_time" key.
NoToken ==
    [has |-> FALSE, at |-> 0, rt |-> 0, exp |-> 0, hasexp |-> FALSE, scope |-> {}]

\* ------------------------------------------------------------ JSONStorage
\* storage_dir, and the name TokenHandler passes to save_token / load_token
StorageDir == "db"
TokenName == "spotify"
\* account keys
Names == {TokenName, "other"}
\* one file for every account key
FilePathShared(name) == <<StorageDir, "", "_token.json">>
\* os.path.join(self.storage_dir, name + "_token.json")
FilePath(name) == <<StorageDir, name, "_token.json">>
Paths == {FilePath(n) : n \in Names}

\* A file: absent, empty (opened with mode 'w', nothing written yet), a JSON
\* document (its keys and their values), or a document written over the
\* start of a longer one (doc), which is no JSON document.
NoDoc == [k \in {} |-> 0]
NoFile == [kind |-> "absent", doc |-> NoDoc]
EmptyFile == [kind |-> "empty", doc |-> NoDoc]
GarbledFile(doc) == [kind |-> "garbled", doc |-> doc]

\* the keys of a token dict
DocKeys(r) ==
    {"access_token", "scope"}
    \cup (IF r.rt # 0 THEN {"refresh_token"} ELSE {})
    \cup (IF r.hasexp THEN {"expires_time"} ELSE {})

\* json.dumps(data, indent=4)
Dumps(r) ==
    [k \in DocKeys(r) |->
        CASE k = "access_token" -> r.at
          [] k = "refresh_token" -> r.rt
          [] k = "expires_time" -> r.exp
          [] OTHER -> r.scope]

\* json.loads(content)
Loads(doc) ==
    [has |-> TRUE,
     at |-> doc.access_token,
     rt |-> IF "refresh_token" \in DOMAIN doc THEN doc.refresh_token ELSE 0,
     exp |-> IF "expires_time" \in DOMAIN doc THEN doc.expires_time ELSE 0,
     hasexp |-> "expires_time" \in DOMAIN doc,
     scope |-> doc.scope]

JsonFile(r) == [kind |-> "json", doc |-> Dumps(r)]

\* the record in the file of TokenHandler's key, if it holds one
StoredToken(S) ==
    LET f == S.stored[FilePath(TokenName)]
    IN IF f.kind = "json" THEN Loads(f.doc) ELSE NoToken

\* A load_token() return: the key, the value returned (ok: no exception) and
\* the record last saved for the key (expect).
NoLd ==
    [valid |-> FALSE, t |-> 0, name |-> "", ok |-> FALSE, rec |-> NoToken,
     expect |-> NoToken]

\* A _token_request return: the record returned.
NoTr == [valid |-> FALSE, t |-> 0, rec |-> NoToken]

\* What a get_token() call remembers of the moment it was issued (empty: no
\* record held and no file in storage), whether no other caller's operation
\* was in progress during it (alone), and of its own code exchange when
\* the answer was a 200 with a refresh_token: the record committed (xrec),
\* the time of the answer (xnow) and its expires_in (xlife).
NoGhost ==
    [active |-> FALSE, seen |-> {}, expect |-> {}, held |-> NoToken,
     fresh |-> FALSE, cold |-> FALSE, sawref |-> FALSE, posted |-> FALSE,
     empty |-> FALSE, alone |-> FALSE, xrec |-> NoToken, xnow |-> 0,
     xlife |-> 0]

NoRet == [valid |-> FALSE, t |-> 0, rec |-> NoToken, g |-> NoGhost]

NoFin ==
    [valid |-> FALSE, t |-> 0, op |-> "none", out |-> "", body |-> 0,
     hist |-> <<>>, nref |-> 0, nsent |-> 0, lastreq |-> 0, miss |-> FALSE,
     lastfail |-> ""]

\* A callback request, with what _auth_future, _auth_code and _token were
\* when it came (pending: a caller was awaiting an unresolved future).
NoCb ==
    [valid |-> FALSE, state |-> "", code |-> 0, error |-> FALSE,
     pending |-> FALSE, futDone |-> {}, auth_code |-> 0, token |-> NoToken]

\* A WebServer after __init__.
NoServer ==
    [runner |-> 0, site |-> 0, n |-> 0, starting |-> {}, reg |-> {},
     listening |-> {}]

\* No authorization URL was made yet.
NoLink == [state |-> "", prev |-> "", resolved |-> FALSE]

\* A coroutine: where it is suspended (pc), the calls it is inside (stk,
\* innermost last) and its locals.  Of its call of _refresh_token: the grant
\* of its token request that failed last (lastfail), the token its code
\* exchange committed (xch) and the token the call returned (got).  Of its
\* call of _login: what load_token returned (loaded: "none" or "record").
\* Of a refresher: the calls of _refresh_token it made since its last sleep
\* (streak) and whether the duration of its sleep is negative (negsleep).
IdleTask ==
    [op |-> "none", pc |-> "idle", stk |-> <<>>, r_token |-> 0,
     rec |-> NoToken, grant |-> "", sent |-> 0, wake |-> 0,
     hist |-> <<>>, nref |-> 0, nsent |-> 0, reqno |-> 0, miss |-> FALSE,
     due |-> 0, sentat |-> 0, fut |-> 0, lastfail |-> "", xch |-> 0,
     got |-> 0, name |-> "", awaits |-> 0, loaded |-> "",
     streak |-> 0, negsleep |-> FALSE,
     hold |-> FALSE, g |-> NoGhost]

St ==
    [now |-> now, token |-> token, stored |-> stored, event |-> event,
     running |-> running, refresh_task |-> refresh_task,
     auth_code |-> auth_code, auth_future |-> auth_future,
     futDone |-> futDone, auth_link |-> auth_link, app_task |-> app_task,
     server |-> server,
     scope |-> scope,
     granted |-> granted, issued |-> issued, last_rt |-> last_rt,
     nreq |-> nreq, nhttp |-> nhttp,
     ncalls |-> ncalls, refreshSent |-> refreshSent, tasks |-> tasks,
     waiters |-> waiters, ready |-> ready,
     ret |-> NoRet, fin |-> NoFin, ld |-> NoLd, tr |-> NoTr, saved |-> saved,
     cb |-> NoCb, ok |-> TRUE]

Bounded(S) ==
    /\ S.ok
    /\ S.nreq <= MaxTokReqs
    /\ S.nhttp <= MaxHttp
    /\ S.ncalls <= MaxCalls
    /\ S.now <= MaxTime
    /\ S.server.n <= MaxSites

Apply(S) ==
    /\ Bounded(S)
    /\ now' = S.now
    /\ token' = S.token
    /\ stored' = S.stored
    /\ event' = S.event
    /\ running' = S.running
    /\ refresh_task' = S.refresh_task
    /\ auth_code' = S.auth_code
    /\ auth_future' = S.auth_future
    /\ futDone' = S.futDone
    /\ auth_link' = S.auth_link
    /\ app_task' = S.app_task
    /\ server' = S.server
    /\ scope' = S.scope
    /\ granted' = S.granted
    /\ issued' = S.issued
    /\ last_rt' = S.last_rt
    /\ nreq' = S.nreq
    /\ nhttp' = S.nhttp
    /\ ncalls' = S.ncalls
    /\ refreshSent' = S.refreshSent
    /\ tasks' = IF S.ready = <<>>
                THEN [t \in Tasks |-> [S.tasks[t] EXCEPT !.hold = FALSE]]
                ELSE S.tasks
    /\ waiters' = S.waiters
    /\ ready' = S.ready
    /\ ret' = S.ret
    /\ fin' = S.fin
    /\ cb' = S.cb
    /\ ld' = S.ld
    /\ tr' = S.tr
    /\ saved' = S.saved

\* ---------------------------------------------------------- bookkeeping
Top(S, t) == S.tasks[t].stk[Len(S.tasks[t].stk)]
Push(S, t, f) == [S EXCEPT !.tasks[t].stk = Append(@, f)]
Pop(S, t) == [S EXCEPT !.tasks[t].stk = SubSeq(@, 1, Len(@) - 1)]
Suspend(S, t, p) == [S EXCEPT !.tasks[t].pc = p]
\* task t waits for input or output to end
SuspendIO(S, t, p) == [S EXCEPT !.tasks[t].pc = p, !.tasks[t].hold = TRUE]
InFrame(S, t, f) == \E i \in 1..Len(S.tasks[t].stk) : S.tasks[t].stk[i] = f
\* task r is inside a call of _refresh_token
InRefresh(S, r) == InFrame(S, r, "refresh_try") \/ InFrame(S, r, "refresh_exc")

\* -------------------------------------------------- what the claims observe
\* A request goes out to the token endpoint: it is counted, a refresh the
\* background refresher sends is counted for the record held, and every
\* get_token() call in progress sees it.
NotePost(S, t, grant) ==
    LET byRefresher == Len(S.tasks[t].stk) > 0 /\ S.tasks[t].stk[1] = "_token_refresher"
        S1 == [S EXCEPT !.nreq = @ + 1,
                        !.refreshSent =
                            IF grant = "refresh_token" /\ byRefresher
                            THEN [@ EXCEPT ![S.token.at] = @ + 1] ELSE @]
    IN [S1 EXCEPT !.tasks =
          [x \in Tasks |->
             IF ~S1.tasks[x].g.active THEN S1.tasks[x]
             ELSE [S1.tasks[x] EXCEPT
                     !.g.sawref = @ \/ grant = "refresh_token",
                     !.g.posted = @ \/ x = t]]]

\* Task r's call of _refresh_token commits the record with access token a.
NoteCommit(S, r, a) ==
    IF ~InRefresh(S, r) THEN S
    ELSE [S EXCEPT !.tasks =
            [x \in Tasks |->
               IF r \in S.tasks[x].g.seen
               THEN [S.tasks[x] EXCEPT !.g.seen = @ \ {r},
                                       !.g.expect = @ \cup {a}]
               ELSE S.tasks[x]]]

\* Task r's call of _refresh_token is over.
NoteRefreshEnd(S, r) ==
    [S EXCEPT !.tasks =
       [x \in Tasks |-> [S.tasks[x] EXCEPT !.g.seen = @ \ {r}]]]

\* ------------------------------------------------------------ task ends
\* A caller's operation ends: it is reported and the caller is free again.
Finish(S, t, out, body) ==
    LET T == S.tasks[t]
    IN [S EXCEPT !.fin = [valid |-> TRUE, t |-> t, op |-> T.op, out |-> out,
                          body |-> body, hist |-> T.hist, nref |-> T.nref,
                          nsent |-> T.nsent, lastreq |-> T.reqno,
                          miss |-> T.miss, lastfail |-> T.lastfail],
                 !.tasks[t] = IdleTask]

\* A refresher task ends: its loop is left (how = "finished"), an exception
\* ended it (how = "dead") or it was cancelled (how = "cancelled").  The
\* coroutines that await the task in stop() are made ready.
EndRefresher(S, t, how) ==
    LET stoppers == {x \in Callers : /\ S.tasks[x].pc = "stop_wait"
                                      /\ S.tasks[x].awaits = t}
        woken == SelectSeq([i \in 1..NumCallers |-> i],
                           LAMBDA x : x \in stoppers)
    IN [S EXCEPT !.tasks =
                    [x \in Tasks |->
                       IF x = t
                       THEN [IdleTask EXCEPT !.pc = how,
                                             !.lastfail = S.tasks[t].lastfail]
                       ELSE IF x \in stoppers
                       THEN [S.tasks[x] EXCEPT !.pc = "stop_woken", !.wake = 0]
                       ELSE S.tasks[x]],
                 !.ready = @ \o woken]

RECURSIVE Ret(_, _, _)
RECURSIVE Raise(_, _)

\* -------------------------------------------------------- TokenHandler
\* asyncio.Event.set(): every coroutine waiting in wait() is made ready; it
\* returns from wait() when it runs, whatever the event is by then.
EventSet(S) ==
    [S EXCEPT !.event = TRUE,
              !.tasks = [x \in Tasks |->
                           IF S.tasks[x].pc = "ev_wait"
                           THEN [S.tasks[x] EXCEPT !.pc = "ev_woken"]
                           ELSE S.tasks[x]],
              !.ready = @ \o S.waiters,
              !.waiters = <<>>]

\* WebServer.start without the test of _app_task
ServerStartAlways(S) ==
    LET i == S.server.n + 1
    IN [S EXCEPT !.app_task = TRUE,
                 !.server.runner = i,
                 !.server.site = i,
                 !.server.n = i,
                 !.server.starting = @ \cup {i}]

\* WebServer.start: nothing when _app_task is set; else a new runner is set
\* up, a new site is made and a task is created for its start().  No step
\* of it waits for anything.
ServerStart(S) ==
    IF S.app_task THEN S
    ELSE LET i == S.server.n + 1
         IN [S EXCEPT !.app_task = TRUE,
                      !.server.runner = i,
                      !.server.site = i,
                      !.server.n = i,
                      !.server.starting = @ \cup {i}]

\* The task of site i runs TCPSite.start(): the site is registered in its
\* runner and binds the port, which fails when another socket holds it.
OnSiteStart(S, i) ==
    [S EXCEPT !.server.starting = @ \ {i},
              !.server.reg = @ \cup {i},
              !.server.listening =
                  IF S.server.listening = {} THEN {i} ELSE @]

\* WebServer.stop up to its first suspension.  The stop() of a site that is
\* not registered in its runner (not started yet, or stopped before: _site
\* is never reset) raises RuntimeError; else the socket is closed.  With no
\* site and no runner nothing is awaited.
ServerStop(S, t) ==
    LET S1 == Push(S, t, "server_stop")
        i == S.server.site
    IN IF i = 0 THEN Ret([S1 EXCEPT !.app_task = FALSE], t, NoToken)
       ELSE IF i \notin S.server.reg
       THEN Raise([S1 EXCEPT !.tasks[t].lastfail = "server_stop"], t)
       ELSE SuspendIO([S1 EXCEPT !.server.reg = @ \ {i},
                                 !.server.listening = @ \ {i}], t, "srv_stop")

\* _get_auth_code up to "await self._auth_future": server.start() (a no-op
\* when _app_task is set), a new future in _auth_future, the browser opened.
\* fut: the result of the future the task awaits (0: none).  The URL carries
\* 'state': self._state, the value __init__ drew.
GetAuthCode(S, t) ==
    LET S1 == Push(S, t, "_get_auth_code")
    IN Suspend([ServerStart(S1) EXCEPT
                          !.auth_link = [state |-> GoodState,
                                         prev |-> S.auth_link.state,
                                         resolved |-> S.auth_future \in S.futDone],
                          !.auth_future = t,
                          !.futDone = @ \ {t},
                          !.tasks[t].fut = 0], t, "auth_wait")

\* _get_new_token up to its first suspension
GetNewToken(S, t) == GetAuthCode(Push(S, t, "_get_new_token"), t)

\* _token_request up to the POST: r_token is read from the held record (a
\* KeyError when it has no refresh_token), then the request is sent.
TokenRequest(S, t, grant, val) ==
    LET S1 == Push(S, t, "_token_request")
    IN IF S.token.has /\ S.token.rt = 0
       THEN Raise([S1 EXCEPT !.tasks[t].lastfail = grant], t)
       ELSE NotePost(
              SuspendIO(
                [S1 EXCEPT !.tasks[t].r_token = IF S.token.has THEN S.token.rt ELSE 0,
                           !.tasks[t].grant = grant,
                           !.tasks[t].sent = val], t, "post"), t, grant)

\* an except clause of _refresh_token that raises the failure
RefreshFailedRaise(S, t) == Raise(Pop(S, t), t)

\* The except clause of _refresh_token: return await self._get_new_token()
RefreshFailed(S, t) ==
    GetNewToken(Push(Pop(S, t), t, "refresh_exc"), t)

\* _refresh_token up to its first suspension.  Reading
\* self._token['refresh_token'] is inside the try.
RefreshToken(S, t) ==
    LET S1 == Push([S EXCEPT !.tasks[t].nref =
                       IF t \in Callers THEN @ + 1 ELSE @,
                             !.tasks[t].lastfail = "",
                             !.tasks[t].xch = 0,
                             !.tasks[t].got = 0], t, "refresh_try")
    IN IF ~S.token.has \/ S.token.rt = 0
       THEN RefreshFailed(S1, t)
       ELSE TokenRequest(S1, t, "refresh_token", S.token.rt)

\* The loop of _token_refresher from "while self._running".
RefresherLoop(S, t) ==
    IF ~S.running THEN EndRefresher(S, t, "finished")
    ELSE IF ~S.token.has \/ ~S.token.hasexp THEN Raise(S, t)
    ELSE LET time_left == S.token.exp - S.now - Margin
         IN IF time_left <= 0
            THEN RefreshToken([S EXCEPT !.event = FALSE,
                                        !.tasks[t].streak = @ + 1], t)
            ELSE [S EXCEPT !.tasks[t].pc = "sleep",
                           !.tasks[t].streak = 0,
                           !.tasks[t].negsleep = time_left < 0,
                           !.tasks[t].wake = S.now + time_left]

\* _token_refresher from its start
RefresherBody(S, t) ==
    RefresherLoop(EventSet([S EXCEPT !.running = TRUE]), t)

\* _run: asyncio.create_task(self._token_refresher())
Run(S) ==
    LET free == {r \in Refreshers : S.tasks[r].pc = "unborn"}
    IN IF free = {} THEN [S EXCEPT !.ok = FALSE]
       ELSE LET r == CHOOSE x \in free : \A y \in free : x <= y
            IN [S EXCEPT !.refresh_task = r,
                         !.ready = Append(@, r),
                         !.tasks[r].pc = "ready",
                         !.tasks[r].op = "refresher",
                         !.tasks[r].stk = <<"_token_refresher">>]

\* _login from "if not self._running"
LoginTail(S, t) ==
    Ret(IF ~S.running THEN Run(S) ELSE S, t, NoToken)

\* a save_token that returns without writing the file
SaveTokenSkipped(S, t, rec, name) == Ret(Push(S, t, "save_token"), t, NoToken)

\* save_token up to the open of the file in _save
SaveToken(S, t, rec, name) ==
    SuspendIO([Push(S, t, "save_token") EXCEPT
                 !.tasks[t].rec = rec,
                 !.tasks[t].name = name,
                 !.saved[name] = NoToken], t, "save")

\* load_token up to its first suspension: it returns None at once when the
\* file does not exist, and opens it in _load otherwise.
LoadToken(S, t, name) ==
    LET S1 == [Push(S, t, "load_token") EXCEPT !.tasks[t].name = name]
    IN IF S.stored[FilePath(name)].kind = "absent"
       THEN Ret(S1, t, NoToken)
       ELSE SuspendIO(S1, t, "load")

\* a _login that authorizes without a look at the storage
LoginNoLoad(S, t) == GetNewToken(Push(S, t, "_login"), t)

\* _login up to its first suspension
Login(S, t) == LoadToken(Push(S, t, "_login"), t, TokenName)

\* What "await asyncio.wait_for(task, ...)" gives for a task that is done:
\* its result, or the exception that ended it (CancelledError when it was
\* cancelled).
AwaitDone(S, t, r) ==
    IF S.tasks[r].pc = "finished" THEN Ret(S, t, NoToken) ELSE Raise(S, t)

\* stop up to its first suspension.  wait_for(None, ...) raises TypeError.
Stop(S, t) ==
    LET S1 == Push([S EXCEPT !.running = FALSE], t, "stop")
        r == S.refresh_task
    IN IF r = 0 THEN Raise(S1, t)
       ELSE IF S.tasks[r].pc \in {"finished", "dead", "cancelled"}
       THEN AwaitDone(S1, t, r)
       ELSE [S1 EXCEPT !.tasks[t].pc = "stop_wait",
                       !.tasks[t].awaits = r,
                       !.tasks[t].wake = S.now + StopTimeout]

\* stop from the end of the task it awaits
OnStopWoken(S, t) ==
    AwaitDone([S EXCEPT !.tasks[t].awaits = 0], t, S.tasks[t].awaits)

\* stop from the timeout of wait_for: the task is cancelled where it is
\* suspended and has ended when wait_for raises its TimeoutError, which is
\* the TimeoutError of "except TimeoutError" from Python 3.11 on (caught).
OnStopTimeout(S, t, caught) ==
    LET r == S.tasks[t].awaits
        S1 == [S EXCEPT !.tasks[t].pc = "run", !.tasks[t].awaits = 0,
                        !.tasks[t].wake = 0,
                        !.ready = SelectSeq(@, LAMBDA x : x # r)]
        S2 == EndRefresher(S1, r, "cancelled")
    IN IF caught THEN Ret(S2, t, NoToken) ELSE Raise(S2, t)

\* get_token without the wait on _refresh_event
EventWaitNoGate(S, t) == Ret(S, t, S.token)

\* get_token from "await self._refresh_event.wait()"
EventWait(S, t) ==
    IF S.event THEN Ret(S, t, S.token)
    ELSE Suspend([S EXCEPT !.waiters = Append(@, t)], t, "ev_wait")

\* what a get_token() call notes when it is issued
IssueGhost(S, t) ==
    [active |-> TRUE,
     seen |-> {r \in Tasks \ {t} : InRefresh(S, r)},
     expect |-> {},
     held |-> S.token,
     fresh |-> S.token.has /\ S.token.hasexp /\ S.token.exp - S.now > Margin,
     cold |-> /\ ~S.token.has
              /\ StoredToken(S).hasexp
              /\ StoredToken(S).exp < S.now,
     sawref |-> FALSE,
     posted |-> FALSE,
     empty |-> ~S.token.has /\ S.stored[FilePath(TokenName)].kind = "absent",
     alone |-> \A u \in Callers \ {t} : S.tasks[u].pc = "idle",
     xrec |-> NoToken, xnow |-> 0, xlife |-> 0]

\* get_token up to its first suspension
GetToken(S, t) ==
    LET S1 == [Push(S, t, "get_token") EXCEPT !.tasks[t].g = IssueGhost(S, t)]
    IN IF ~S.token.has THEN Login(S1, t) ELSE EventWait(S1, t)

\* ------------------------------------------------------ RequestHandler
\* _request from the token it got: the request is sent with the bearer.
RequestSend(S, t, tok) ==
    IF ~tok.has THEN Raise(S, t)
    ELSE SuspendIO([S EXCEPT !.nhttp = @ + 1,
                             !.tasks[t].reqno = S.nhttp + 1,
                             !.tasks[t].nsent = @ + 1,
                             !.tasks[t].sentat = S.now,
                             !.tasks[t].sent = tok.at], t, "http")

\* _request up to its first suspension
Request(S, t) == GetToken(Push(S, t, "_request"), t)

\* _check_scope: the scopes required and not in token_handler.scope
MissingScopes(S, op) == SCOPE_REQUIREMENTS[op] \ S.scope

\* a Client method: _check_scope, then _request
ClientCall(S, t, op) ==
    LET S1 == [S EXCEPT !.tasks[t].op = op,
                        !.tasks[t].miss =
                            S.token.has /\ ~(SCOPE_REQUIREMENTS[op] \subseteq S.token.scope)]
    IN IF MissingScopes(S, op) # {}
       THEN Finish(S1, t, "MissingScope", 0)
       ELSE Request(S1, t)

\* a 401 branch that sends the request again without a refresh
On401NoRefresh(S, t) == Request(Pop(S, t), t)

\* The 401 branch of _request: refresh, then the request again.
On401(S, t) == RefreshToken(S, t)

\* a 429 branch that sends the request again without a sleep
BackoffNoSleep(S, t, retry_after) ==
    [S EXCEPT !.tasks[t].pc = "backoff", !.tasks[t].wake = S.now]

\* The 429 branch of _request: await asyncio.sleep(retry_after)
Backoff(S, t, retry_after) ==
    [S EXCEPT !.tasks[t].pc = "backoff", !.tasks[t].wake = S.now + retry_after]

\* a _request that treats every failure as a 429
OnResponseRetryAll(S, t, status, retry_after) ==
    LET S1 == [S EXCEPT !.tasks[t].hist = Append(@, status),
                        !.tasks[t].due =
                            IF status = 429 THEN S.now + retry_after ELSE 0]
    IN CASE status = 204 -> Finish(S1, t, "ok", 0)
         [] status = 401 -> On401(S1, t)
         [] status = 200 -> Finish(S1, t, "ok", S1.tasks[t].reqno)
         [] OTHER -> Backoff(S1, t, retry_after)

\* _request from the response of the remote API (status 0: ClientError).
\* due: the time the Retry-After of a 429 names, for the claims.  The
\* exception of a status that is not ok has the status in its message.
OnResponse(S, t, status, retry_after) ==
    LET S1 == [S EXCEPT !.tasks[t].hist = Append(@, status),
                        !.tasks[t].due =
                            IF status = 429 THEN S.now + retry_after ELSE 0]
    IN CASE status = 204 -> Finish(S1, t, "ok", 0)
         [] status = 401 -> On401(S1, t)
         [] status = 429 -> Backoff(S1, t, retry_after)
         [] status = 200 -> Finish(S1, t, "ok", S1.tasks[t].reqno)
         [] status = 0 -> Finish(S1, t, "transport", 0)
         [] OTHER -> Finish(S1, t, "upstream", status)

\* ------------------------------------------------- returns and exceptions
\* The innermost call of task t returns v: its caller goes on, up to the
\* next suspension.
Ret(S, t, v) ==
    LET f == Top(S, t)
        P == Pop(S, t)
        c == IF Len(P.tasks[t].stk) = 0 THEN "" ELSE Top(P, t)
    IN CASE f = "_token_request" ->
              Ret([P EXCEPT !.tr = [valid |-> TRUE, t |-> t, rec |-> v]], t, v)
         [] f = "save_token" ->
              IF c = "_token_request" THEN Ret(P, t, P.token)
              ELSE Finish(P, t, "ok", 0)
         [] f = "load_token" ->
              LET L == [P EXCEPT !.ld = [valid |-> TRUE, t |-> t,
                                         name |-> S.tasks[t].name, ok |-> TRUE,
                                         rec |-> v,
                                         expect |-> S.saved[S.tasks[t].name]],
                                 !.tasks[t].name = "",
                                 !.tasks[t].loaded =
                                     IF c # "_login" THEN @
                                     ELSE IF v.has THEN "record" ELSE "none"]
              IN IF c = "_login"
                 THEN IF v.has THEN LoginTail([L EXCEPT !.token = v], t)
                      ELSE GetNewToken([L EXCEPT !.token = NoToken], t)
                 ELSE Finish(L, t, "ok", 0)
         [] f = "_get_new_token" ->
              IF c = "_login" THEN LoginTail([P EXCEPT !.token = v], t)
              ELSE Ret(P, t, v)
         [] f \in {"refresh_try", "refresh_exc"} ->
              LET Q == [NoteRefreshEnd(P, t) EXCEPT
                          !.tasks[t].lastfail = "",
                          !.tasks[t].got = IF f = "refresh_exc" THEN v.at ELSE 0]
              IN IF c = "_token_refresher"
                 THEN RefresherLoop(EventSet(Q), t)
                 ELSE Request(Pop(Q, t), t)
         [] f = "_login" ->
              IF c = "get_token"
              THEN EventWait([P EXCEPT !.tasks[t].loaded = ""], t)
              ELSE Finish(P, t, "ok", 0)
         [] f = "stop" -> Finish(P, t, "ok", 0)
         [] f = "server_stop" ->
              IF c = "_get_auth_code"
              THEN TokenRequest(Pop(P, t), t, "authorization_code", P.auth_code)
              ELSE Finish(P, t, "ok", 0)
         [] f = "get_token" ->
              LET R == [P EXCEPT !.ret = [valid |-> TRUE, t |-> t, rec |-> v,
                                          g |-> S.tasks[t].g],
                                 !.tasks[t].g = NoGhost]
              IN IF c = "_request" THEN RequestSend(R, t, v)
                 ELSE Finish(R, t, "ok", 0)
         [] OTHER -> [S EXCEPT !.ok = FALSE]

\* An exception leaves the innermost call of task t: the try of
\* _refresh_token catches it, nothing else does.
Raise(S, t) ==
    IF Len(S.tasks[t].stk) = 0
    THEN IF t \in Refreshers THEN EndRefresher(S, t, "dead")
         ELSE Finish(S, t, "error", 0)
    ELSE LET f == Top(S, t)
         IN CASE f = "refresh_try" -> RefreshFailed(S, t)
              [] f = "refresh_exc" -> Raise(Pop(NoteRefreshEnd(S, t), t), t)
              [] f = "get_token" -> Raise(Pop([S EXCEPT !.tasks[t].g = NoGhost], t), t)
              [] OTHER -> Raise(Pop(S, t), t)

\* a _token_request that assigns the answer to self._token before it looks
\* at the status
OnTokenResponseAssignFirst(S, t, ok, has_rt, expires_in) ==
    LET T == S.tasks[t]
        S0 == [S EXCEPT !.tasks[t].r_token = 0, !.tasks[t].grant = "",
                        !.tasks[t].sent = 0, !.tasks[t].fut = 0,
                        !.tasks[t].lastfail = IF ok THEN @ ELSE T.grant,
                        !.tasks[t].xch =
                            IF ok /\ T.grant = "authorization_code"
                                  /\ InFrame(S, t, "refresh_exc")
                            THEN S.issued + 1 ELSE @]
        a == S.issued + 1
        answer == [has |-> TRUE, at |-> a, rt |-> IF has_rt THEN a ELSE 0,
                   exp |-> 0, hasexp |-> FALSE, scope |-> S.granted]
        S1 == NoteCommit([S0 EXCEPT !.issued = a, !.token = answer,
                                    !.last_rt = IF has_rt THEN a ELSE @], t, a)
        full == [answer EXCEPT !.rt = IF has_rt THEN a ELSE T.r_token,
                               !.exp = S.now + expires_in,
                               !.hasexp = TRUE]
        mine == T.g.active /\ T.grant = "authorization_code" /\ has_rt
        S2 == [S1 EXCEPT !.token = full,
                         !.tasks[t].g.xrec = IF mine THEN full ELSE @,
                         !.tasks[t].g.xnow = IF mine THEN S.now ELSE @,
                         !.tasks[t].g.xlife = IF mine THEN expires_in ELSE @]
    IN IF ~ok THEN Raise([S0 EXCEPT !.token = answer], t)
       ELSE IF ~has_rt /\ T.r_token = 0 THEN Raise(S1, t)
       ELSE SaveToken(S2, t, full, TokenName)

\* _token_request from the answer of the token endpoint.  ok: status 200;
\* has_rt: the answer carries a refresh_token.
OnTokenResponse(S, t, ok, has_rt, expires_in) ==
    LET T == S.tasks[t]
        S0 == [S EXCEPT !.tasks[t].r_token = 0, !.tasks[t].grant = "",
                        !.tasks[t].sent = 0, !.tasks[t].fut = 0,
                        !.tasks[t].lastfail = IF ok THEN @ ELSE T.grant,
                        !.tasks[t].xch =
                            IF ok /\ T.grant = "authorization_code"
                                  /\ InFrame(S, t, "refresh_exc")
                            THEN S.issued + 1 ELSE @]
        a == S.issued + 1
        answer == [has |-> TRUE, at |-> a, rt |-> IF has_rt THEN a ELSE 0,
                   exp |-> 0, hasexp |-> FALSE, scope |-> S.granted]
        S1 == NoteCommit([S0 EXCEPT !.issued = a, !.token = answer,
                                    !.last_rt = IF has_rt THEN a ELSE @], t, a)
        full == [answer EXCEPT !.rt = IF has_rt THEN a ELSE T.r_token,
                               !.exp = S.now + expires_in,
                               !.hasexp = TRUE]
        mine == T.g.active /\ T.grant = "authorization_code" /\ has_rt
        S2 == [S1 EXCEPT !.token = full,
                         !.tasks[t].g.xrec = IF mine THEN full ELSE @,
                         !.tasks[t].g.xnow = IF mine THEN S.now ELSE @,
                         !.tasks[t].g.xlife = IF mine THEN expires_in ELSE @]
    IN IF ~ok THEN Raise(S0, t)
       ELSE IF ~has_rt /\ T.r_token = 0 THEN Raise(S1, t)
       ELSE SaveToken(S2, t, full, TokenName)

\* _save from the open of the file: mode 'w' has emptied it
OnSaveOpened(S, t) ==
    SuspendIO([S EXCEPT !.stored[FilePath(S.tasks[t].name)] = EmptyFile],
              t, "write")

\* _save from the end of the write: the document is in the file, from its
\* start; what another writer wrote meanwhile stays behind it when that was
\* longer.  save_token returns.
OnSaved(S, t) ==
    LET T == S.tasks[t]
        p == FilePath(T.name)
        mine == Dumps(T.rec)
        others == {u \in Tasks \ {t} : /\ S.tasks[u].pc \in {"save", "write"}
                                       /\ S.tasks[u].name = T.name}
        written ==
            IF /\ S.stored[p].kind \in {"json", "garbled"}
               /\ ~(DOMAIN S.stored[p].doc \subseteq DOMAIN mine)
            THEN GarbledFile(S.stored[p].doc)
            ELSE JsonFile(T.rec)
    IN Ret([S EXCEPT !.stored[p] = written,
                     !.saved[T.name] = IF others = {} /\ written.kind = "json"
                                       THEN T.rec ELSE NoToken,
                     !.tasks[t].rec = NoToken,
                     !.tasks[t].name = ""], t, NoToken)

\* _load from the end of the read: json.loads(content)
OnLoaded(S, t) ==
    LET T == S.tasks[t]
        f == S.stored[FilePath(T.name)]
    IN IF f.kind = "json" THEN Ret(S, t, Loads(f.doc))
       ELSE Raise([S EXCEPT !.ld = [valid |-> TRUE, t |-> t, name |-> T.name,
                                    ok |-> FALSE, rec |-> NoToken,
                                    expect |-> S.saved[T.name]],
                            !.tasks[t].name = ""], t)

\* WebServer.stop from the end of site.stop() and runner.cleanup()
OnServerStopped(S, t) == Ret([S EXCEPT !.app_task = FALSE], t, NoToken)

\* a _callback_handler that does not compare the state
OnCallbackAnyState(S, st, code, err) ==
    IF err THEN S
    ELSE LET S1 == [S EXCEPT !.auth_code = code]
         IN IF code # 0 /\ S.auth_future \notin S.futDone
            THEN [S1 EXCEPT !.futDone = @ \cup {S.auth_future},
                            !.tasks[S.auth_future].fut = code,
                            !.ready = Append(@, S.auth_future)]
            ELSE S1

\* _callback_handler
OnCallback(S, st, code, err) ==
    IF st # GoodState THEN S
    ELSE IF err THEN S
    ELSE LET S1 == [S EXCEPT !.auth_code = code]
         IN IF code # 0 /\ S.auth_future \notin S.futDone
            THEN [S1 EXCEPT !.futDone = @ \cup {S.auth_future},
                            !.tasks[S.auth_future].fut = code,
                            !.ready = Append(@, S.auth_future)]
            ELSE S1

\* ---------------------------------------------------------------- actions
\* a record an earlier run left in storage
StoredRecord(e, sc) ==
    [has |-> TRUE, at |-> 1, rt |-> 1, exp |-> e, hasexp |-> TRUE, scope |-> sc]

\* The state after construction, with the scope list sc, of which the user
\* grants one of grants, on a storage that is empty (if empty) or holds a
\* record that expires at one of exps.
InitWith(sc, grants, empty, exps) ==
    /\ now = 0
    /\ token = NoToken
    /\ scope = sc
    /\ granted \in grants
    /\ \E f \in (IF empty THEN {NoFile} ELSE {})
                 \cup {JsonFile(StoredRecord(e, granted)) : e \in exps} :
          /\ stored = [p \in Paths |->
                          IF p = FilePath(TokenName) THEN f ELSE NoFile]
          /\ last_rt = IF f.kind = "json" THEN Loads(f.doc).rt ELSE 0
    /\ event = FALSE
    /\ running = FALSE
    /\ refresh_task = 0
    /\ auth_code = 0
    /\ auth_future = 0
    /\ futDone = {}
    /\ auth_link = NoLink
    /\ app_task = FALSE
    /\ server = NoServer
    /\ issued = 1
    /\ nreq = 0
    /\ nhttp = 0
    /\ ncalls = 0
    /\ refreshSent = [a \in 1..(MaxTokReqs + 1) |-> 0]
    /\ tasks = [t \in Tasks |->
                  IF t \in Callers THEN IdleTask
                  ELSE [IdleTask EXCEPT !.pc = "unborn"]]
    /\ waiters = <<>>
    /\ ready = <<>>
    /\ ret = NoRet
    /\ fin = NoFin
    /\ cb = NoCb
    /\ ld = NoLd
    /\ tr = NoTr
    /\ saved = [n \in Names |-> NoToken]

Init == InitWith({}, {{}}, TRUE, StoredExpiry)

\* a Client whose user granted every scope asked for
InitReq == InitWith(ClientScope, {ClientScope}, FALSE, {FreshExpiry})

\* a Client whose user granted some of the scopes asked for
InitSeq == InitWith(ClientScope, SUBSET ClientScope, FALSE, {FreshExpiry})

\* the records the callers of a JSONStorage save: two records of the token
\* endpoint, and a dict with an access token only
StoreRecords ==
    {StoredRecord(FreshExpiry, {}),
     [StoredRecord(0 - TickStep, ClientScope) EXCEPT !.at = 2, !.rt = 2],
     [NoToken EXCEPT !.has = TRUE, !.at = 3]}

\* a JSONStorage on an empty directory
InitStore == InitWith({}, {{}}, TRUE, {})

\* Callers are interchangeable: the next call is made by the first free one.
FreeCaller(t) ==
    /\ tasks[t].pc = "idle"
    /\ \A u \in Callers : u < t => tasks[u].pc # "idle"

\* The loop resumes task t: it is the first of the queue.
Resumed(t) == [St EXCEPT !.ready = Tail(@)]

\* The input or output task t waits for has ended.
IoEnded(t, p) == tasks[t].pc = p /\ ~tasks[t].hold

\* Caller t starts an operation: the calls in progress are no longer alone.
Started(t, op) ==
    [St EXCEPT !.ncalls = @ + 1,
               !.tasks = [x \in Tasks |->
                            IF x = t
                            THEN [tasks[x] EXCEPT !.op = op, !.pc = "run"]
                            ELSE [tasks[x] EXCEPT !.g.alone = FALSE]]]

\* a caller calls TokenHandler.get_token()
CallGetToken(t) ==
    /\ FreeCaller(t)
    /\ Apply(GetToken(Started(t, "get_token"), t))

\* a caller calls RequestHandler.login()
CallLogin(t) ==
    /\ FreeCaller(t)
    /\ Apply(Login(Started(t, "login"), t))

\* a caller calls a method of Client
CallClient(t, op) ==
    /\ FreeCaller(t)
    /\ Apply(ClientCall(Started(t, op), t, op))

\* a caller calls a method of Client while no other call is in progress
CallClientAlone(t, op) ==
    /\ \A u \in Callers : tasks[u].pc = "idle"
    /\ CallClient(t, op)

\* a caller calls TokenHandler.stop()
CallStop(t) ==
    /\ FreeCaller(t)
    /\ Apply(Stop(Started(t, "stop"), t))

\* a caller calls JSONStorage.save_token(r, name)
CallSaveToken(t, r, name) ==
    /\ FreeCaller(t)
    /\ Apply(SaveToken([St EXCEPT !.tasks[t].op = "save_token",
                                  !.tasks[t].pc = "run"], t, r, name))

\* a caller calls JSONStorage.load_token(name)
CallLoadToken(t, name) ==
    /\ FreeCaller(t)
    /\ Apply(LoadToken([St EXCEPT !.tasks[t].op = "load_token",
                                  !.tasks[t].pc = "run"], t, name))

LoadDone(t) ==
    /\ IoEnded(t, "load")
    /\ Apply(OnLoaded(St, t))

\* the future awaited in _get_auth_code has its result: server.stop()
AuthDone(t) ==
    /\ ready # <<>> /\ Head(ready) = t
    /\ tasks[t].pc = "auth_wait"
    /\ Apply(ServerStop(Resumed(t), t))

ServerStopped(t) ==
    /\ IoEnded(t, "srv_stop")
    /\ Apply(OnServerStopped(St, t))

\* the task created by WebServer.start runs
SiteStarted(i) ==
    /\ i \in server.starting
    /\ Apply(OnSiteStart(St, i))

\* a caller calls WebServer.start()
CallServerStart(t) ==
    /\ FreeCaller(t)
    /\ Apply(Finish(ServerStart([St EXCEPT !.tasks[t].op = "server_start",
                                           !.tasks[t].pc = "run"]), t, "ok", 0))

\* a caller calls WebServer.stop()
CallServerStop(t) ==
    /\ FreeCaller(t)
    /\ Apply(ServerStop([St EXCEPT !.tasks[t].op = "server_stop",
                                   !.tasks[t].pc = "run"], t))

TokenResponse(t, ok, has_rt, expires_in) ==
    /\ IoEnded(t, "post")
    /\ Apply(OnTokenResponse(St, t, ok, has_rt, expires_in))

SaveOpened(t) ==
    /\ IoEnded(t, "save")
    /\ Apply(OnSaveOpened(St, t))

SaveDone(t) ==
    /\ IoEnded(t, "write")
    /\ Apply(OnSaved(St, t))

RefresherStart(t) ==
    /\ ready # <<>> /\ Head(ready) = t
    /\ tasks[t].pc = "ready"
    /\ Apply(RefresherBody(Resumed(t), t))

SleepDone(t) ==
    /\ tasks[t].pc = "sleep"
    /\ tasks[t].wake <= now
    /\ Apply(RefresherLoop([St EXCEPT !.tasks[t].wake = 0], t))

\* a coroutine that waited on _refresh_event runs again
EventWoken(t) ==
    /\ ready # <<>> /\ Head(ready) = t
    /\ tasks[t].pc = "ev_woken"
    /\ Apply(Ret(Resumed(t), t, token))

HttpResponse(t, status, retry_after) ==
    /\ IoEnded(t, "http")
    /\ Apply(OnResponse(St, t, status, retry_after))

\* the sleep after a 429 is over: return await self._request(...)
BackoffDone(t) ==
    /\ tasks[t].pc = "backoff"
    /\ tasks[t].wake <= now
    /\ Apply(Request(Pop([St EXCEPT !.tasks[t].wake = 0], t), t))

\* the task awaited in stop() has ended
StopWoken(t) ==
    /\ ready # <<>> /\ Head(ready) = t
    /\ tasks[t].pc = "stop_woken"
    /\ Apply(OnStopWoken(Resumed(t), t))

\* the timeout of stop() is over
StopTimedOut(t, caught) ==
    /\ tasks[t].pc = "stop_wait"
    /\ tasks[t].wake <= now
    /\ Apply(OnStopTimeout(St, t, caught))

\* a request arrives at the callback route of the listener
Callback(st, code, err) ==
    /\ server.listening # {}
    /\ Apply([OnCallback(St, st, code, err) EXCEPT
                !.cb = [valid |-> TRUE, state |-> st, code |-> code,
                        error |-> err,
                        pending |-> /\ auth_future # 0
                                    /\ auth_future \notin futDone
                                    /\ tasks[auth_future].pc = "auth_wait",
                        futDone |-> futDone, auth_code |-> auth_code,
                        token |-> token]])

\* a sleep of task t is over
TimerDue(t) ==
    tasks[t].pc \in {"sleep", "backoff", "stop_wait"} /\ tasks[t].wake <= now

\* Time passes while every task waits for something.
Tick ==
    /\ ready = <<>>
    /\ \A t \in Tasks : ~TimerDue(t)
    /\ Apply([St EXCEPT !.now = @ + TickStep])

\* the steps of the TokenHandler's coroutines, of the token endpoint, of the
\* storage and of the clock
HandlerNext ==
    \/ \E t \in Tasks : LoadDone(t)
    \/ \E t \in Tasks : AuthDone(t)
    \/ \E t \in Tasks : ServerStopped(t)
    \/ \E i \in 1..MaxSites : SiteStarted(i)
    \/ \E t \in Tasks, a \in TokenAnswers :
          TokenResponse(t, a.ok, a.has_rt, a.expires_in)
    \/ \E t \in Tasks : SaveOpened(t)
    \/ \E t \in Tasks : SaveDone(t)
    \/ \E t \in Refreshers : RefresherStart(t)
    \/ \E t \in Refreshers : SleepDone(t)
    \/ \E t \in Tasks : EventWoken(t)
    \/ Tick

\* callers of the TokenHandler
Next ==
    \/ \E t \in Callers : CallGetToken(t)
    \/ \E t \in Callers : CallLogin(t)
    \/ \E q \in CallbackQueries : Callback(q.state, q.code, q.error)
    \/ HandlerNext

\* callers of the Client, whose calls overlap
NextReq ==
    \/ \E t \in Callers, op \in ClientOps : CallClient(t, op)
    \/ \E t \in Callers, r \in OverlapAnswers :
          HttpResponse(t, r.status, r.retry_after)
    \/ \E t \in Callers : BackoffDone(t)
    \/ \E q \in GrantCallbacks : Callback(q.state, q.code, q.error)
    \/ HandlerNext

\* callers of the Client, one call at a time
NextSeq ==
    \/ \E t \in Callers, op \in ClientOps : CallClientAlone(t, op)
    \/ \E t \in Callers, r \in ApiAnswers :
          HttpResponse(t, r.status, r.retry_after)
    \/ \E t \in Callers : BackoffDone(t)
    \/ \E q \in GrantCallbacks : Callback(q.state, q.code, q.error)
    \/ HandlerNext

\* callers of the TokenHandler who also stop it
NextStop ==
    \/ \E t \in Callers : CallGetToken(t)
    \/ \E t \in Callers : CallStop(t)
    \/ \E t \in Callers : StopWoken(t)
    \/ \E t \in Callers, caught \in BOOLEAN : StopTimedOut(t, caught)
    \/ \E q \in GrantCallbacks : Callback(q.state, q.code, q.error)
    \/ HandlerNext

\* get_token callers of a TokenHandler and callers of its WebServer
NextServer ==
    \/ \E t \in Callers : CallGetToken(t)
    \/ \E t \in Callers : CallServerStart(t)
    \/ \E t \in Callers : CallServerStop(t)
    \/ \E q \in GrantCallbacks : Callback(q.state, q.code, q.error)
    \/ HandlerNext

\* callers of a JSONStorage
NextStore ==
    \/ \E t \in Callers, r \in StoreRecords, n \in Names : CallSaveToken(t, r, n)
    \/ \E t \in Callers, n \in Names : CallLoadToken(t, n)
    \/ \E t \in Callers : LoadDone(t)
    \/ \E t \in Callers : SaveOpened(t)
    \/ \E t \in Callers : SaveDone(t)

Spec == Init /\ [][Next]_vars

SpecStore == InitStore /\ [][NextStore]_vars

SpecStop == Init /\ [][NextStop]_vars

SpecServer == Init /\ [][NextServer]_vars

SpecReq == InitReq /\ [][NextReq]_vars

SpecSeq == InitSeq /\ [][NextSeq]_vars

\* ----------------------------------------------------------------- claims

\* C1: every record get_token() returns has an expires_time later than the
\* clock at the moment of the return.
C1_ReturnsUnexpired ==
    ret.valid => ret.rec.has /\ ret.rec.hasexp /\ ret.rec.exp > now

\* C2: a get_token() call issued while a call of _refresh_token is in flight
\* returns after that refresh has committed its record, and returns a record
\* with the access token that refresh committed.
C2_SingleFlight ==
    ret.valid => /\ ret.g.seen = {}
                 /\ \A a \in ret.g.expect : ret.rec.at = a

\* C3: at most one request to the token endpoint is in flight at any time.
C3_OneTokenRequestInFlight ==
    Cardinality({t \in Tasks : tasks[t].pc = "post"}) <= 1

\* C4: at most one authorization attempt (a pending future awaited in
\* _get_auth_code) is outstanding at any time.
C4_OneAuthorizationAttempt ==
    Cardinality({t \in Tasks : tasks[t].pc = "auth_wait" /\ t \notin futDone}) <= 1

\* C5: the renewal of a record within the margin sends no more than one
\* refresh_token request for that record.
C5_OneRefreshPerRecord ==
    \A a \in DOMAIN refreshSent : refreshSent[a] <= 1

\* C6: a get_token() call issued while the held record expires more than the
\* margin later returns that record, and sends nothing to the token endpoint.
C6_NoSpuriousRefresh ==
    ret.valid /\ ret.g.fresh => ret.rec = ret.g.held /\ ~ret.g.posted

\* C7: a get_token() call issued with no record held and an expired record in
\* storage does not return before a refresh_token request has been sent.
C7_RefreshBeforeReturn ==
    ret.valid /\ ret.g.cold => ret.g.sawref

C7_Witness ==
    ret.valid /\ ret.g.cold /\ ret.g.sawref

\* C8: an operation that requires a scope the held token was not granted
\* sends nothing to the remote API and fails with a missing-scope error.
C8_MissingScopeStopsCall ==
    /\ \A t \in Callers : tasks[t].miss => tasks[t].nsent = 0
    /\ fin.valid /\ fin.miss => fin.out = "MissingScope" /\ fin.nsent = 0

\* C9: one call of _request calls _refresh_token no more than once, and
\* ends with a failure when the request it sent again is answered 401 too.
C9_OneRetryAfter401 ==
    \A t \in Callers :
        /\ tasks[t].nref <= 1
        /\ Len(SelectSeq(tasks[t].hist, LAMBDA x : x = 401)) >= 2
              => tasks[t].pc = "idle"

\* C10: a call of _request answered 401 and then, for the request sent
\* again, 200 returns the body of that 200 answer, and has called
\* _refresh_token once.
C10_RetryAfter401Succeeds ==
    fin.valid /\ fin.hist = <<401, 200>>
        => fin.out = "ok" /\ fin.body = fin.lastreq /\ fin.nref = 1

C10_Witness ==
    fin.valid /\ fin.hist = <<401, 200>> /\ fin.out = "ok" /\ fin.nref = 1

\* C11: the request a call sends after a 429 is sent no earlier than the
\* Retry-After of that 429 (1 without the header) after the 429 came.
C11_RetryNotBeforeRetryAfter ==
    \A t \in Callers :
        tasks[t].pc = "http" /\ tasks[t].due > 0
            => tasks[t].sentat >= tasks[t].due

C11_Witness ==
    \E t \in Callers :
        /\ tasks[t].pc = "http"
        /\ tasks[t].due = TickStep
        /\ tasks[t].sentat >= tasks[t].due

\* C12: a call whose requests are all answered 429 has ended with a failure
\* by the time it has sent as many requests as the run allows.
C12_Bounded429Retries ==
    \A t \in Callers :
        Len(SelectSeq(tasks[t].hist, LAMBDA x : x = 429)) >= MaxHttp
            => tasks[t].pc = "idle"

\* C13: a callback request whose state is not the handler's resolves no
\* future and changes neither the authorization code nor the held record.
C13_StateMismatchIgnored ==
    cb.valid /\ cb.state # GoodState
        => futDone = cb.futDone /\ auth_code = cb.auth_code /\ token = cb.token

C13_Witness ==
    /\ cb.valid /\ cb.state # GoodState /\ cb.code # 0 /\ ~cb.error
    /\ cb.pending /\ auth_future \notin futDone

\* C14: a callback request with the handler's state and an error resolves
\* the pending attempt: the caller in _get_auth_code stops waiting.
C14_DenialResolvesAttempt ==
    cb.valid /\ cb.state = GoodState /\ cb.error /\ cb.pending
        => tasks[auth_future].pc # "auth_wait" \/ auth_future \in futDone

\* C15: the code sent in an authorization_code exchange is the code of the
\* callback that resolved the attempt, the first valid one.
C15_FirstCallbackCode ==
    \A t \in Tasks :
        tasks[t].pc = "post" /\ tasks[t].grant = "authorization_code"
            => tasks[t].sent = tasks[t].fut

\* C16: the held record carries the refresh token the server issued last:
\* a response without a refresh_token keeps the one held before.
C16_LatestRefreshTokenKept ==
    token.has /\ token.hasexp => token.rt = last_rt

C18_SavedBeforeReturn ==
    tr.valid => stored[FilePath(TokenName)] = JsonFile(tr.rec)

\* C19: load_token(k) after a save_token(r, k) that has ended, with no other
\* save for k begun since, returns the access token, the refresh token and
\* the expires_time of r, whatever was saved under other keys.
C19_StorageRoundTrip ==
    ld.valid /\ ld.expect.has
        => /\ ld.ok
           /\ ld.rec.at = ld.expect.at
           /\ ld.rec.rt = ld.expect.rt
           /\ ld.rec.hasexp = ld.expect.hasexp
           /\ ld.rec.exp = ld.expect.exp

C19_Witness ==
    /\ ld.valid /\ ld.ok /\ ld.name = TokenName
    /\ ld.expect.has /\ ld.rec.rt = ld.expect.rt /\ ld.rec.rt # 0
    /\ saved["other"].has /\ saved["other"] # ld.expect

\* C20: a load_token never fails and never returns anything but a record
\* that was saved, also while a save_token for the key is in progress.
C20_AtomicPerKey ==
    ld.valid => ld.ok

\* C21: a get_token() call issued with nothing held and nothing stored,
\* during which no other caller's operation runs and whose code exchange was
\* answered 200 with a refresh_token and a lifetime L, returns the record of
\* that answer, with expires_time = the time of the answer + L, and the file
\* of the account key holds that record.
C21_FirstAuthorization ==
    ret.valid /\ ret.g.empty /\ ret.g.alone /\ ret.g.xrec.has
        => /\ ret.rec.has /\ ret.rec.at = ret.g.xrec.at
           /\ ret.rec.hasexp /\ ret.rec.exp = ret.g.xnow + ret.g.xlife
           /\ stored[FilePath(TokenName)] = JsonFile(ret.rec)

C21_Witness ==
    /\ ret.valid /\ ret.g.empty /\ ret.g.alone /\ ret.g.xrec.has
    /\ ret.rec = ret.g.xrec /\ ret.rec.rt = ret.rec.at
    /\ stored[FilePath(TokenName)] = JsonFile(ret.rec)

\* C22: stop() returns normally, and when it has returned the task in
\* _refresh_task has ended.
C22_StopReturns ==
    fin.valid /\ fin.op = "stop"
        => /\ fin.out = "ok"
           /\ refresh_task # 0
                 => tasks[refresh_task].pc \in {"finished", "dead", "cancelled"}

\* C23: the record held in _token is absent or has its access_token, its
\* refresh_token and its expires_time.
C23_RecordComplete ==
    token.has => token.at # 0 /\ token.rt # 0 /\ token.hasexp

\* C24: a coroutine waits for an authorization callback only inside a _login
\* whose load_token returned no record, or inside a _refresh_token whose
\* refresh failed; a get_token() in progress is never in an authorization
\* after its load returned a record.
C24_LoadBeforeAuthorize ==
    \A t \in Tasks :
        tasks[t].pc = "auth_wait"
            => \/ \E i \in DOMAIN tasks[t].stk : tasks[t].stk[i] = "refresh_exc"
               \/ /\ \E i \in DOMAIN tasks[t].stk : tasks[t].stk[i] = "_login"
                  /\ tasks[t].loaded = "none"

C24_Witness ==
    \E t \in Callers :
        /\ tasks[t].pc = "auth_wait" /\ tasks[t].g.active
        /\ tasks[t].loaded = "none"
        /\ tasks[t].stk = <<"get_token", "_login", "_get_new_token", "_get_auth_code">>

\* C25: the state parameter of an authorization URL differs from that of the
\* round before, and a callback with the state of an earlier round whose
\* future had its result does not give the future of a later round its
\* result.
C25_NoncePerRound ==
    /\ auth_link.prev # "" => auth_link.state # auth_link.prev
    /\ cb.valid /\ auth_link.resolved /\ auth_future \in futDone \ cb.futDone
           => cb.state # auth_link.prev

\* C26: the refresher does not call _refresh_token again and again with no
\* sleep in between, up to any number of calls the run allows, and the
\* duration it sleeps is not negative.
C26_NoTightRefreshLoop ==
    \A r \in Refreshers :
        /\ tasks[r].streak < MaxTokReqs
        /\ tasks[r].pc = "sleep" => ~tasks[r].negsleep

\* C27: when a record with all its fields is held, no coroutine is inside a
\* refresh, an authorization or a token request, and every refresher task
\* created has begun to run, no get_token() caller waits on _refresh_event.
C27_GateClosedOnlyInRenewal ==
    (/\ token.has /\ token.rt # 0 /\ token.hasexp
     /\ \A t \in Tasks :
           /\ tasks[t].pc # "ready"
           /\ {tasks[t].stk[i] : i \in DOMAIN tasks[t].stk}
                  \cap {"refresh_try", "refresh_exc", "_get_new_token",
                        "_token_request"} = {})
        => \A t \in Callers : tasks[t].pc # "ev_wait"

C29_FailAtOnce ==
    /\ fin.valid /\ fin.hist # <<>> /\ fin.hist[Len(fin.hist)] \notin {200, 401, 429}
         => LET last == fin.hist[Len(fin.hist)]
            IN /\ last = 204 => fin.out = "ok" /\ fin.body = 0
               /\ last = 0 => fin.out = "transport"
               /\ last \notin {0, 204} => fin.out = "upstream" /\ fin.body = last
               /\ fin.nsent = Len(fin.hist)
               /\ fin.nref = Len(SelectSeq(fin.hist, LAMBDA x : x = 401))
    /\ \A t \in Callers :
          tasks[t].pc # "idle" /\ tasks[t].hist # <<>>
              => tasks[t].hist[Len(tasks[t].hist)] \in {401, 429}

\* a call answered 429 and then 500 has failed with the status 500
C29_Witness ==
    fin.valid /\ fin.hist = <<429, 500>> /\ fin.out = "upstream"
        /\ fin.body = 500 /\ fin.nsent = 2 /\ fin.nref = 0

\* C30: a get_token() call that is blocked has something that will resume
\* it: one that waits on an authorization future waits on the future the
\* callback route resolves (self._auth_future) or on one that has its
\* result; one that waits on the gate has a refresher task that has not
\* ended, or a _login under way that will create one.
C30_BlockedCallerResumes ==
    \A t \in Callers :
        tasks[t].op = "get_token" =>
            /\ tasks[t].pc = "auth_wait" => auth_future = t \/ t \in futDone
            /\ tasks[t].pc = "ev_wait" =>
                   \/ \E r \in Refreshers :
                         tasks[r].pc \notin {"unborn", "finished", "dead",
                                             "cancelled"}
                   \/ \E u \in Tasks :
                         \E k \in DOMAIN tasks[u].stk : tasks[u].stk[k] = "_login"

\* C31: the step in which a token request is answered with a status other
\* than 200 (or fails on the connection) changes neither the record held
\* (self._token) nor any file of the storage.
C31_FailedTokenRequestKeepsRecords ==
    [][(\E t \in Tasks : TokenResponse(t, FALSE, FALSE, 0))
          => token' = token /\ stored' = stored]_vars

\* a refresh was answered with an error while a record is held and stored:
\* the coroutine is in the fallback authorization, the records are there
C31_Witness ==
    \E t \in Tasks :
        /\ tasks[t].lastfail = "refresh_token" /\ tasks[t].pc = "auth_wait"
        /\ token.has /\ token.rt # 0
        /\ stored[FilePath(TokenName)].kind = "json"

\* C32: when a token request was answered 200, the record held has all its
\* fields, and no coroutine is inside _token_request or save_token, the
\* file of the account key holds the record held in self._token.
C32_StoredEqualsHeld ==
    (/\ issued > 1
     /\ token.has /\ token.rt # 0 /\ token.hasexp
     /\ \A t \in Tasks :
           {tasks[t].stk[k] : k \in DOMAIN tasks[t].stk}
               \cap {"_token_request", "save_token"} = {})
        => stored[FilePath(TokenName)] = JsonFile(token)

\* C33: when stop() returns after a refresher task was created, and a
\* record with all its fields is held, the gate is open, or something will
\* open it: a refresher task that has not ended, or a _login under way that
\* will create one.
C33_StopLeavesGateOpen ==
    (/\ fin.valid /\ fin.op = "stop" /\ fin.out = "ok" /\ refresh_task # 0
     /\ token.has /\ token.rt # 0 /\ token.hasexp)
        => \/ event
           \/ \E r \in Refreshers :
                 tasks[r].pc \notin {"unborn", "finished", "dead", "cancelled"}
           \/ \E u \in Tasks :
                 \E k \in DOMAIN tasks[u].stk : tasks[u].stk[k] = "_login"

====
